---- MODULE Spec2Model ----
(***************************************************************************)
(* A model of sam_sql_database: the DatabaseService (engine, scoped        *)
(* connections, execute_query, close), the CsvImportService (identifier    *)
(* sanitizer, per-file import) and the plugin lifecycle (configuration     *)
(* validation, initialize_sql_agent, cleanup_sql_agent_resources).         *)
(*                                                                         *)
(* Strings are sequences of characters; a character is written as a        *)
(* one-token string ("a", "7", "_") and the three non-ASCII characters the *)
(* model needs are written by code point: "U0130" (LATIN CAPITAL LETTER I  *)
(* WITH DOT ABOVE), "U0307" (COMBINING DOT ABOVE), "U00BD" (VULGAR         *)
(* FRACTION ONE HALF).                                                     *)
(***************************************************************************)
EXTENDS Integers, Sequences, FiniteSets, TLC

\* ------------------------------------------------------------------ bounds
\* Longest identifier handed to the sanitizer.
MaxIdLen == 3
\* Most rows a statement of the model returns.
MaxRows == 1
\* Largest affected-row count the backend reports.
MaxRowCount == 1
\* close() and cleanup_sql_agent_resources calls followed in one behaviour.
MaxCloseCalls == 2
\* Most headers of a CSV file whose import is followed on its own.
MaxHeaders == 2
\* Most data rows of such a file.
MaxFileRows == 2

\* ---------------------------------------------------- program constants
\* get_unique_values' default limit.
SampleLimit == 3

\* ------------------------------------------------- Python str primitives
\* Characters an identifier under test is drawn from: a lower-case letter, an
\* upper-case letter, a decimal digit, the underscore, a punctuation mark, and
\* the three non-ASCII characters above.
Alphabet == {"a", "B", "7", "_", "-", "U0130", "U0307", "U00BD"}

LowerLetters == {"a", "b", "c", "d", "i", "l", "o", "t"}
UpperLetters == {"B", "U0130"}

\* str.isalpha for the characters of the model.
isalpha(c) == c \in LowerLetters \cup UpperLetters

\* str.isdigit: "7" is a decimal digit; "U00BD" is numeric but no digit.
isdigit(c) == c = "7"

\* str.isalnum: alphabetic, decimal, digit or numeric. The combining mark
\* "U0307" (category Mn), "_" and "-" are not alphanumeric.
isalnum(c) == isalpha(c) \/ isdigit(c) \/ c = "U00BD"

\* str.lower on one character: the lower-case mapping may be longer than the
\* character (U+0130 lowers to "i" followed by U+0307).
lowerChar(c) ==
    CASE c = "B" -> <<"b">>
      [] c = "U0130" -> <<"i", "U0307">>
      [] OTHER -> <<c>>

RECURSIVE lower(_)
lower(s) == IF s = <<>> THEN <<>> ELSE lowerChar(Head(s)) \o lower(Tail(s))

\* "".join(c if c.isalnum() else "_" for c in identifier)
replaceNonAlnum(s) == [i \in 1..Len(s) |-> IF isalnum(s[i]) THEN s[i] ELSE "_"]

tbl_ == <<"t", "b", "l", "_">>
col_ == <<"c", "o", "l", "_">>

\* CsvImportService._sanitize_identifier.
sanitize_identifier(identifier) ==
    LET sanitized == replaceNonAlnum(identifier)
        prefixed ==
            IF sanitized = <<>> \/ isdigit(sanitized[1]) \/ sanitized[1] = "_"
            THEN IF sanitized = <<>> \/ isdigit(sanitized[1])
                 THEN tbl_ \o sanitized
                 ELSE col_ \o sanitized
            ELSE sanitized
    IN  lower(prefixed)

\* Every string of at most n characters of the alphabet.
StringsUpTo(n) == UNION {[1..k -> Alphabet] : k \in 0..n}

\* ---------------------------------------------------------- state
VARIABLES
    identifier,     \* the string handed to _sanitize_identifier
    sanitized,      \* _sanitize_identifier(identifier), once computed
    resanitized,    \* _sanitize_identifier(sanitized), once computed
    sanPc,          \* sanitizer harness: "idle", "input", "once", "twice"
    pc,             \* where the caller stands: "new", "direct", "start", ...
    config,         \* the SqlAgentInitConfigModel handed to the plugin
    svc,            \* the DatabaseService object: class, engine, csv_import_service
    db,             \* the database catalogue: table name -> table
    fs,             \* the file system: path -> file, for the paths that exist
    attempted,      \* the paths whose import has been attempted so far
    agentState,     \* host_component.agent_specific_state
    locals,         \* initialize_sql_agent's schema strings, while it runs
    checkedOut,     \* connections checked out of the pool and not returned
    disposals,      \* the outcome of each engine.dispose() call made so far
    closeCalls,     \* close() calls made so far
    lastCall,       \* the most recent call on the service and what it did
    importers       \* the threads importing at the same time, each one's position

sanVars == <<identifier, sanitized, resanitized, sanPc>>
svcVars == <<pc, config, svc, db, fs, attempted, agentState, locals, checkedOut, disposals,
             closeCalls, lastCall>>
vars == <<identifier, sanitized, resanitized, sanPc, pc, config, svc, db,
          fs, attempted, agentState, locals, checkedOut, disposals, closeCalls, lastCall,
          importers>>

\* ------------------------------------------------------ Python values
\* A cell value or a dictionary value: a str or an int.
PyStr(s) == [kind |-> "str", s |-> s, n |-> 0]
PyInt(n) == [kind |-> "int", s |-> "", n |-> n]

\* result.rowcount: None, or an integer; the DB-API reports -1 when the count
\* of the last statement cannot be determined.
NoneCount == [none |-> TRUE, n |-> 0]
Count(k) == [none |-> FALSE, n |-> k]
RowCounts == {NoneCount} \cup {Count(k) : k \in (-1)..MaxRowCount}

Range(f) == {f[i] : i \in DOMAIN f}

\* ------------------------------------------------ the backend's answers
Cells == {PyStr("success"), PyInt(0), PyInt(1)}

\* Output column lists of the row-returning statements.
KeyLists ==
    {<<"x">>, <<"status">>, <<"status", "affected_rows">>, <<"affected_rows", "x">>}

RowsOver(keys) == UNION {[1..k -> [1..Len(keys) -> Cells]] : k \in 0..MaxRows}

\* What conn.execute(text(query)) does with a statement: it raises, or it gives
\* a cursor result that returns rows (keys, rows) or does not (rowcount).
Cursor(raises, returns_rows, keys, rows, rowcount) ==
    [raises |-> raises, returns_rows |-> returns_rows, keys |-> keys,
     rows |-> rows, rowcount |-> rowcount]

Cursors ==
    {Cursor(e, FALSE, <<>>, <<>>, NoneCount) : e \in {"SQLAlchemyError", "Exception"}}
        \cup {Cursor("none", TRUE, k, r, NoneCount) :
                <<k, r>> \in UNION {{k} \X RowsOver(k) : k \in KeyLists}}
        \cup {Cursor("none", FALSE, <<>>, <<>>, rc) : rc \in RowCounts}

\* engine.connect(): a connection, or an error of SQLAlchemy or another one.
ConnectOutcomes == {"ok", "SQLAlchemyError", "Exception"}

\* ------------------------------------------------- DatabaseService
NoService == [cls |-> "none", engine |-> "None", csv_import_service |-> FALSE]

Dialects == {"postgresql", "mysql", "sqlserver", "sqlite"}
NetworkDialects == {"postgresql", "mysql", "sqlserver"}

\* What a finished call reports: the exception it raised ("none" when it
\* returned), the value it returned, the connections it asked for, obtained and
\* gave back, and the argument it worked on.
Call(op, raised, value, attempts, opened, closed, arg) ==
    [op |-> op, raised |-> raised, value |-> value, attempts |-> attempts,
     opened |-> opened, closed |-> closed, arg |-> arg]

NoCall == Call("none", "none", <<>>, 0, 0, 0, <<>>)

\* The subclasses' _create_engine: SQLiteService needs a database path and
\* builds its engine without a driver import; the network services build a URL
\* and sa.create_engine may raise (driver missing, bad argument).
create_engine(cls, database, createOutcome) ==
    IF cls = "sqlite"
    THEN IF database = "" THEN "ValueError" ELSE "ok"
    ELSE createOutcome

\* DatabaseService.__init__: the engine, or None when _create_engine raised;
\* the CsvImportService only with an engine.
DatabaseService(cls, database, createOutcome) ==
    LET engine == IF create_engine(cls, database, createOutcome) = "ok"
                  THEN "Engine" ELSE "None"
    IN  [cls |-> cls, engine |-> engine, csv_import_service |-> engine # "None"]

\* A plausible slip: the scope does not check the engine, and None.connect
\* raises an AttributeError.
get_connection_NoEngineCheck(engine, connectOutcome, bodyRaises) ==
    IF engine = "None"
    THEN [raised |-> "AttributeError", attempts |-> 0, opened |-> 0, closed |-> 0]
    ELSE [raised |-> IF connectOutcome = "ok" THEN bodyRaises ELSE connectOutcome,
          attempts |-> 1,
          opened |-> IF connectOutcome = "ok" THEN 1 ELSE 0,
          closed |-> IF connectOutcome = "ok" THEN 1 ELSE 0]

\* A plausible slip: the connection is closed only when the body finishes.
get_connection_CloseOnSuccess(engine, connectOutcome, bodyRaises) ==
    IF engine = "None"
    THEN [raised |-> "RuntimeError", attempts |-> 0, opened |-> 0, closed |-> 0]
    ELSE IF connectOutcome # "ok"
    THEN [raised |-> connectOutcome, attempts |-> 1, opened |-> 0, closed |-> 0]
    ELSE [raised |-> bodyRaises, attempts |-> 1, opened |-> 1,
          closed |-> IF bodyRaises = "none" THEN 1 ELSE 0]

\* DatabaseService.get_connection, as the scope around a with-body that ends
\* by raising bodyRaises ("none": it finishes). The body runs only when
\* engine.connect() gave a connection; the finally clause closes the
\* connection whenever one was obtained.
get_connection(engine, connectOutcome, bodyRaises) ==
    IF engine = "None"
    THEN [raised |-> "RuntimeError", attempts |-> 0, opened |-> 0, closed |-> 0]
    ELSE LET connection == IF connectOutcome = "ok" THEN "Connection" ELSE "None"
             raised == IF connection = "None" THEN connectOutcome ELSE bodyRaises
         IN  [raised |-> raised, attempts |-> 1,
              opened |-> IF connection # "None" THEN 1 ELSE 0,
              closed |-> IF connection # "None" THEN 1 ELSE 0]

\* result.mappings(): each row as a mapping from the cursor's keys.
mappings(cursor) ==
    [i \in 1..Len(cursor.rows) |->
        [k \in Range(cursor.keys) |->
            cursor.rows[i][CHOOSE j \in 1..Len(cursor.keys) : cursor.keys[j] = k]]]

\* The status record of a statement that returns no rows.
status_record(rowcount) ==
    [status |-> PyStr("success"),
     affected_rows |-> PyInt(IF ~rowcount.none THEN rowcount.n ELSE 0)]

\* DatabaseService.execute_query.
execute_query(engine, connectOutcome, cursor) ==
    IF engine = "None"
    THEN Call("execute_query", "RuntimeError", <<>>, 0, 0, 0, cursor)
    ELSE LET scope == get_connection(engine, connectOutcome, cursor.raises)
             value == IF cursor.returns_rows
                      THEN mappings(cursor)
                      ELSE <<status_record(cursor.rowcount)>>
         IN  Call("execute_query", scope.raised,
                  IF scope.raised = "none" THEN value ELSE <<>>,
                  scope.attempts, scope.opened, scope.closed, cursor)

\* A plausible slip: the disposal error is not caught.
close_NoCatch(engine, disposeOutcome) ==
    IF engine # "None"
    THEN [raised |-> disposeOutcome, dispose_calls |-> 1,
          disposed |-> IF disposeOutcome = "none" THEN 1 ELSE 0]
    ELSE [raised |-> "none", dispose_calls |-> 0, disposed |-> 0]

\* DatabaseService.close: engine.dispose() when there is an engine, its error
\* logged and swallowed; the engine attribute is left as it is.
close(engine, disposeOutcome) ==
    IF engine # "None"
    THEN [raised |-> "none", dispose_calls |-> 1,
          disposed |-> IF disposeOutcome = "none" THEN 1 ELSE 0]
    ELSE [raised |-> "none", dispose_calls |-> 0, disposed |-> 0]

\* ------------------------------------------------------ the catalogue
\* A column as the import declares it and the inspector reports it.
Column(name, type, primary_key, autoincrement) ==
    [name |-> name, type |-> type, primary_key |-> primary_key,
     autoincrement |-> autoincrement]

\* A table: its columns in order and its committed rows, each row a mapping
\* from column name to cell.
Table(columns, rows) == [columns |-> columns, rows |-> rows]

\* No thread is importing.
NoImporters == <<>>

NoTables == [t \in {} |-> Table(<<>>, <<>>)]

\* A plausible slip: the existence test never finds the table.
has_table_Never(catalogue, table_name) == FALSE

\* Inspector.has_table, on the catalogue as it is when asked.
has_table(catalogue, table_name) == table_name \in DOMAIN catalogue

\* ------------------------------------------------------- the file system
\* A path is a directory, a base name and an extension; a file is the rows
\* csv.reader yields for it, the first one being the header row.
Path(dir, base, ext) == [dir |-> dir, base |-> base, ext |-> ext]

\* os.path.splitext(os.path.basename(file_path))[0]
base_filename(file_path) == file_path.base

\* What the backend does during one file's import: Inspector.has_table,
\* engine.connect, create_all with its commit, the insert with its commit.
ImportIO(has, connect, create, insert) ==
    [has_table |-> has, connect |-> connect, create |-> create, insert |-> insert]

\* The import stops at the first step that fails, so one failing step, or
\* none, says all the backend does.
ImportIOs ==
    {ImportIO("ok", "ok", "ok", "ok"),
     ImportIO("SQLAlchemyError", "ok", "ok", "ok"),
     ImportIO("ok", "SQLAlchemyError", "ok", "ok"),
     ImportIO("ok", "Exception", "ok", "ok"),
     ImportIO("ok", "ok", "SQLAlchemyError", "ok"),
     ImportIO("ok", "ok", "ok", "SQLAlchemyError")}

\* The columns _import_single_csv_file declares for the sanitized headers: a
\* surrogate integer "id" first when no header is "id"; a text column per
\* header, the first "id" header being the primary key.
id_ == <<"i", "d">>

RECURSIVE columns_from(_, _, _)
columns_from(sanitized_headers, i, columns_for_table) ==
    IF i > Len(sanitized_headers) THEN columns_for_table
    ELSE LET header_name == sanitized_headers[i]
             is_primary_key ==
                 /\ header_name = id_
                 /\ ~\E j \in 1..Len(columns_for_table) :
                        /\ columns_for_table[j].name = id_
                        /\ columns_for_table[j].primary_key
         IN  columns_from(sanitized_headers, i + 1,
                 Append(columns_for_table,
                        Column(header_name, "TEXT", is_primary_key, FALSE)))

columns_for(sanitized_headers) ==
    columns_from(sanitized_headers, 1,
        IF ~\E i \in 1..Len(sanitized_headers) : sanitized_headers[i] = id_
        THEN <<Column(id_, "INTEGER", TRUE, TRUE)>>
        ELSE <<>>)

\* A plausible slip: the loop stops at the first malformed row (break for
\* continue).
RECURSIVE data_rows_Break(_, _, _)
data_rows_Break(lines, i, n) ==
    IF i > Len(lines) \/ Len(lines[i]) # n THEN <<>>
    ELSE <<lines[i]>> \o data_rows_Break(lines, i + 1, n)

\* The rows of the file that have as many fields as the header, in file order.
RECURSIVE data_rows(_, _, _)
data_rows(lines, i, n) ==
    IF i > Len(lines) THEN <<>>
    ELSE (IF Len(lines[i]) # n THEN <<>> ELSE <<lines[i]>>)
             \o data_rows(lines, i + 1, n)

\* dict(zip(sanitized_headers, row)): a later duplicate header wins.
row_dict(sanitized_headers, row) ==
    [h \in Range(sanitized_headers) |->
        PyStr(row[CHOOSE j \in 1..Len(row) :
                    /\ sanitized_headers[j] = h
                    /\ \A k \in (j + 1)..Len(row) : sanitized_headers[k] # h])]

\* The stored row of an inserted row_dict: the surrogate key, when the table
\* has one, continues the table's sequence.
stored_row(columns, dict, rowid) ==
    [c \in {columns[j].name : j \in 1..Len(columns)} |->
        IF c \in DOMAIN dict THEN dict[c] ELSE PyInt(rowid)]

\* What one file's import leaves: the exception it raised to the batch driver
\* ("none": it returned), the catalogue, and the connections it used.
Imported(raised, catalogue, attempts, opened, closed) ==
    [raised |-> raised, db |-> catalogue, attempts |-> attempts,
     opened |-> opened, closed |-> closed]

\* What a batch leaves: the same, and the files it went through.
Batch(r, tried) ==
    [raised |-> r.raised, db |-> r.db, attempts |-> r.attempts,
     opened |-> r.opened, closed |-> r.closed, tried |-> tried]

\* [self._sanitize_identifier(h) for h in headers]
sanitized_headers_of(headers) ==
    [i \in 1..Len(headers) |-> sanitize_identifier(headers[i])]

\* data_to_insert: the well-formed rows as dictionaries.
data_to_insert_of(lines, sanitized_headers) ==
    LET rows == data_rows(lines, 2, Len(lines[1]))
    IN  [i \in 1..Len(rows) |-> row_dict(sanitized_headers, rows[i])]

\* What the body of the import's connection scope raises: create_all and its
\* commit, then, when there are rows, the insert and its commit.
import_body_raises(io, data_to_insert) ==
    IF io.create # "ok" THEN io.create
    ELSE IF data_to_insert # <<>> /\ io.insert # "ok" THEN io.insert
    ELSE "none"

\* metadata_obj.create_all: the table as declared, or the table that is there.
created_table(catalogue, table_name, columns) ==
    IF table_name \in DOMAIN catalogue THEN catalogue[table_name]
    ELSE Table(columns, <<>>)

\* conn.execute(table.insert(), data_to_insert), committed.
insert_rows(table, data_to_insert) ==
    Table(table.columns,
          table.rows \o [i \in 1..Len(data_to_insert) |->
                            stored_row(table.columns, data_to_insert[i],
                                       Len(table.rows) + i)])

with_table(catalogue, table_name, table) ==
    [t \in DOMAIN catalogue \cup {table_name} |->
        IF t = table_name THEN table ELSE catalogue[t]]

\* A plausible slip: the handler drops the table when the scope failed (the
\* rollback the source leaves commented out).
import_scope_left_DropOnError(catalogue, table_name, columns, data_to_insert, io, scope) ==
    Imported(scope.raised,
        IF scope.opened = 1 /\ import_body_raises(io, data_to_insert) = "none"
        THEN with_table(catalogue, table_name,
                 insert_rows(created_table(catalogue, table_name, columns),
                             data_to_insert))
        ELSE catalogue,
        1 + scope.attempts, scope.opened, scope.closed)

\* The catalogue after the scope: the created table is committed before the
\* rows are read; the rows are there only when the insert was committed.
import_scope_left(catalogue, table_name, columns, data_to_insert, io, scope) ==
    Imported(scope.raised,
        IF scope.opened = 1 /\ io.create = "ok"
        THEN with_table(catalogue, table_name,
                 IF import_body_raises(io, data_to_insert) = "none"
                 THEN insert_rows(created_table(catalogue, table_name, columns),
                                  data_to_insert)
                 ELSE created_table(catalogue, table_name, columns))
        ELSE catalogue,
        1 + scope.attempts, scope.opened, scope.closed)

\* _import_single_csv_file from the table declaration on: sa.Table refuses
\* two columns of one name; the rest runs in a connection scope.
import_declared(engine, catalogue, table_name, columns, data_to_insert, io) ==
    IF Cardinality({columns[j].name : j \in 1..Len(columns)}) # Len(columns)
    THEN Imported("ArgumentError", catalogue, 1, 0, 0)
    ELSE import_scope_left(catalogue, table_name, columns, data_to_insert, io,
             get_connection(engine, io.connect,
                            import_body_raises(io, data_to_insert)))

\* _import_single_csv_file from the header row on.
import_lines(engine, catalogue, table_name, lines, sanitized_headers, io) ==
    import_declared(engine, catalogue, table_name, columns_for(sanitized_headers),
                    data_to_insert_of(lines, sanitized_headers), io)

\* _import_single_csv_file for the table name the file's base name gives.
import_into(engine, catalogue, files, file_path, io, table_name) ==
    IF io.has_table # "ok"
    THEN Imported(io.has_table, catalogue, 1, 0, 0)
    ELSE IF has_table(catalogue, table_name)
    THEN Imported("none", catalogue, 1, 0, 0)
    ELSE IF file_path \notin DOMAIN files          \* FileNotFoundError, logged
    THEN Imported("none", catalogue, 1, 0, 0)
    ELSE IF files[file_path] = <<>>                \* StopIteration, logged
    THEN Imported("none", catalogue, 1, 0, 0)
    ELSE IF files[file_path][1] = <<>>             \* no headers
    THEN Imported("none", catalogue, 1, 0, 0)
    ELSE import_lines(engine, catalogue, table_name, files[file_path],
                      sanitized_headers_of(files[file_path][1]), io)

\* CsvImportService._import_single_csv_file.
import_single_csv_file(engine, catalogue, files, file_path, io) ==
    import_into(engine, catalogue, files, file_path, io,
                sanitize_identifier(base_filename(file_path)))

\* The batch loop of import_csv_files: each file in turn, its exception logged.
RECURSIVE import_each(_, _, _, _, _, _)
RECURSIVE import_rest(_, _, _, _, _, _)
import_each(engine, catalogue, files, all_files_to_process, ios, i) ==
    IF i > Len(all_files_to_process)
    THEN Imported("none", catalogue, 0, 0, 0)
    ELSE import_rest(import_single_csv_file(engine, catalogue, files,
                                            all_files_to_process[i], ios[i]),
                     engine, files, all_files_to_process, ios, i + 1)

logged_and_then(one, rest) ==
    Imported("none", rest.db, one.attempts + rest.attempts,
             one.opened + rest.opened, one.closed + rest.closed)

import_rest(one, engine, files, all_files_to_process, ios, i) ==
    logged_and_then(one, import_each(engine, one.db, files, all_files_to_process, ios, i))

\* os.listdir's entries of a directory that end with ".csv", whatever the case.
lower_ext(ext) == IF ext = ".CSV" THEN ".csv" ELSE ext

csv_files_in(files, directory) ==
    {f \in DOMAIN files : f.dir = directory /\ lower_ext(f.ext) = ".csv"}

\* os.path.isdir, for the directories that hold a file.
isdir(files, directory) == \E f \in DOMAIN files : f.dir = directory

\* Every sequence that lists the members of S once each.
Orderings(S) ==
    {q \in [1..Cardinality(S) -> S] : \A x \in S : \E i \in DOMAIN q : q[i] = x}

\* The files of the listed directories, each directory's in the order of its
\* listing (os.listdir gives an arbitrary order).
RECURSIVE scan(_, _, _, _)
scan(files, directories, listing, i) ==
    IF i > Len(directories) THEN <<>>
    ELSE (IF isdir(files, directories[i]) THEN listing[directories[i]] ELSE <<>>)
             \o scan(files, directories, listing, i + 1)

\* all_files_to_process: the listed files, then those of the directories.
files_to_process(files, file_list, directories, listing) ==
    file_list \o scan(files, directories, listing, 1)

\* CsvImportService.import_csv_files. scanRaises is what os.listdir raises
\* ("none": nothing); it is raised out of the call, before any file is tried.
import_csv_files(engine, catalogue, files, file_list, directories, listing, scanRaises, ios) ==
    IF engine = "None"
    THEN Batch(Imported("none", catalogue, 0, 0, 0), <<>>)
    ELSE IF scanRaises # "none" /\ \E i \in 1..Len(directories) : isdir(files, directories[i])
    THEN Batch(Imported(scanRaises, catalogue, 0, 0, 0), <<>>)
    ELSE IF files_to_process(files, file_list, directories, listing) = <<>>
    THEN Batch(Imported("none", catalogue, 0, 0, 0), <<>>)
    ELSE Batch(import_each(engine, catalogue, files,
                           files_to_process(files, file_list, directories, listing),
                           ios, 1),
               files_to_process(files, file_list, directories, listing))

\* except Exception: log.error(...)
logged(r) == [r EXCEPT !.raised = "none"]

\* DatabaseService.import_csv_data: the import when the CsvImportService
\* exists, any exception of it logged; an error log otherwise. It returns None.
import_csv_data(service, catalogue, files, file_list, directories, listing, scanRaises, ios) ==
    IF service.csv_import_service
    THEN logged(import_csv_files(service.engine, catalogue, files, file_list,
                                 directories, listing, scanRaises, ios))
    ELSE Batch(Imported("none", catalogue, 0, 0, 0), <<>>)

\* ------------------------------------------------------- inspection
\* engine.name: the dialect name of the URL the service builds.
engine_name(cls) == IF cls = "sqlserver" THEN "mssql" ELSE cls

RECURSIVE SeqOf(_)
SeqOf(S) == IF S = {} THEN <<>>
            ELSE LET x == CHOOSE x \in S : TRUE IN <<x>> \o SeqOf(S \ {x})

\* DatabaseService.get_tables: Inspector.get_table_names, or its error.
get_tables(engine, catalogue, inspectRaises) ==
    IF engine = "None" THEN Call("get_tables", "RuntimeError", <<>>, 0, 0, 0, <<>>)
    ELSE IF inspectRaises # "none"
    THEN Call("get_tables", inspectRaises, <<>>, 1, 0, 0, <<>>)
    ELSE Call("get_tables", "none", SeqOf(DOMAIN catalogue), 1, 1, 1, <<>>)

\* A plausible slip: a failed read of a table is logged and gives nothing.
inspect_table_Swallow(op, engine, catalogue, table_name, inspectRaises, value) ==
    IF engine = "None" THEN Call(op, "RuntimeError", <<>>, 0, 0, 0, table_name)
    ELSE IF inspectRaises # "none" \/ table_name \notin DOMAIN catalogue
    THEN Call(op, "none", <<>>, 1, 0, 0, table_name)
    ELSE Call(op, "none", value, 1, 1, 1, table_name)

\* The Inspector's per-table reads: NoSuchTableError (an SQLAlchemyError) for
\* a table that is not there.
inspect_table(op, engine, catalogue, table_name, inspectRaises, value) ==
    IF engine = "None" THEN Call(op, "RuntimeError", <<>>, 0, 0, 0, table_name)
    ELSE IF inspectRaises # "none"
    THEN Call(op, inspectRaises, <<>>, 1, 0, 0, table_name)
    ELSE IF table_name \notin DOMAIN catalogue
    THEN Call(op, "SQLAlchemyError", <<>>, 1, 1, 1, table_name)
    ELSE Call(op, "none", value, 1, 1, 1, table_name)

\* DatabaseService.get_columns.
get_columns(engine, catalogue, table_name, inspectRaises) ==
    inspect_table("get_columns", engine, catalogue, table_name, inspectRaises,
        IF table_name \in DOMAIN catalogue
        THEN LET cols == catalogue[table_name].columns
             IN  [i \in 1..Len(cols) |->
                    [name |-> cols[i].name, type |-> cols[i].type,
                     nullable |-> ~cols[i].primary_key,
                     default |-> "None", comment |-> "None"]]
        ELSE <<>>)

\* DatabaseService.get_primary_keys.
get_primary_keys(engine, catalogue, table_name, inspectRaises) ==
    inspect_table("get_primary_keys", engine, catalogue, table_name, inspectRaises,
        IF table_name \in DOMAIN catalogue
        THEN LET cols == catalogue[table_name].columns
             IN  SelectSeq([i \in 1..Len(cols) |-> cols[i].name],
                           LAMBDA n : \E i \in 1..Len(cols) :
                                         cols[i].name = n /\ cols[i].primary_key)
        ELSE <<>>)

\* DatabaseService.get_foreign_keys; the tables of the model have none.
get_foreign_keys(engine, catalogue, table_name, inspectRaises) ==
    inspect_table("get_foreign_keys", engine, catalogue, table_name, inspectRaises, <<>>)

\* DatabaseService.get_indexes; the tables of the model have none.
get_indexes(engine, catalogue, table_name, inspectRaises) ==
    inspect_table("get_indexes", engine, catalogue, table_name, inspectRaises, <<>>)

\* The sampling query get_unique_values builds for the engine's name; no branch
\* matches "mssql", which leaves the query unbound.
sample_query(name, table_name, column_name, limit) ==
    CASE name = "mysql" ->
            [bound |-> TRUE, quote |-> "backtick", random |-> "RAND()",
             table |-> table_name, column |-> column_name, limit |-> limit]
      [] name \in {"postgresql", "sqlite"} ->
            [bound |-> TRUE, quote |-> "double", random |-> "RANDOM()",
             table |-> table_name, column |-> column_name, limit |-> limit]
      [] name = "sqlserver" ->
            [bound |-> TRUE, quote |-> "bracket", random |-> "TOP",
             table |-> table_name, column |-> column_name, limit |-> limit]
      [] OTHER ->
            [bound |-> FALSE, quote |-> "none", random |-> "none",
             table |-> table_name, column |-> column_name, limit |-> limit]

\* The statistics query of get_column_stats: backticks for mysql, double
\* quotes for every other engine.
stats_query(name, table_name, column_name) ==
    [bound |-> TRUE, quote |-> IF name = "mysql" THEN "backtick" ELSE "double",
     table |-> table_name, column |-> column_name]

\* The distinct values of a column.
distinct_values(catalogue, table_name, column_name) ==
    {catalogue[table_name].rows[i][column_name] :
        i \in 1..Len(catalogue[table_name].rows)}

has_column(catalogue, table_name, column_name) ==
    /\ table_name \in DOMAIN catalogue
    /\ \E i \in 1..Len(catalogue[table_name].columns) :
          catalogue[table_name].columns[i].name = column_name

Min(a, b) == IF a < b THEN a ELSE b

\* What a sampling query may return: limit of the distinct values, or all of
\* them when there are fewer, in any order.
Samples(catalogue, table_name, column_name, limit) ==
    IF ~has_column(catalogue, table_name, column_name) THEN {<<>>}
    ELSE LET D == distinct_values(catalogue, table_name, column_name)
         IN  UNION {Orderings(S) : S \in {T \in SUBSET D :
                                           Cardinality(T) = Min(limit, Cardinality(D))}}

\* The backend's answer to a sampling or statistics query: an error for a
\* table or a column that is not there, or when the backend fails.
query_cursor(catalogue, query, cursorRaises, keys, rows) ==
    IF cursorRaises # "none" THEN Cursor(cursorRaises, FALSE, <<>>, <<>>, NoneCount)
    ELSE IF ~has_column(catalogue, query.table, query.column)
    THEN Cursor("SQLAlchemyError", FALSE, <<>>, <<>>, NoneCount)
    ELSE Cursor("none", TRUE, keys, rows, NoneCount)

\* A plausible slip: no try block around the query, and its errors reach the
\* caller.
get_unique_values_NoCatch(engine, cls, catalogue, table_name, column_name, connectOutcome, cursorRaises, pick) ==
    IF engine = "None"
    THEN Call("get_unique_values", "RuntimeError", <<>>, 0, 0, 0, <<table_name, column_name>>)
    ELSE LET query == sample_query(engine_name(cls), table_name, column_name, SampleLimit)
         IN  IF ~query.bound
             THEN Call("get_unique_values", "UnboundLocalError", <<>>, 0, 0, 0, <<table_name, column_name>>)
             ELSE LET cursor == query_cursor(catalogue, query, cursorRaises, <<column_name>>,
                                             [i \in 1..Len(pick) |-> <<pick[i]>>])
                      results == execute_query(engine, connectOutcome, cursor)
                  IN  Call("get_unique_values", results.raised,
                           IF results.raised = "none"
                           THEN [i \in 1..Len(results.value) |-> results.value[i][column_name]]
                           ELSE <<>>,
                           results.attempts, results.opened, results.closed,
                           <<table_name, column_name>>)

\* DatabaseService.get_unique_values. An unbound query raises inside the try
\* block, as every error of execute_query does, and the answer is [].
get_unique_values(engine, cls, catalogue, table_name, column_name, connectOutcome, cursorRaises, pick) ==
    IF engine = "None"
    THEN Call("get_unique_values", "RuntimeError", <<>>, 0, 0, 0, <<table_name, column_name>>)
    ELSE LET query == sample_query(engine_name(cls), table_name, column_name, SampleLimit)
         IN  IF ~query.bound
             THEN Call("get_unique_values", "none", <<>>, 0, 0, 0, <<table_name, column_name>>)
             ELSE LET cursor == query_cursor(catalogue, query, cursorRaises, <<column_name>>,
                                             [i \in 1..Len(pick) |-> <<pick[i]>>])
                      results == execute_query(engine, connectOutcome, cursor)
                  IN  Call("get_unique_values", "none",
                           IF results.raised = "none"
                           THEN [i \in 1..Len(results.value) |-> results.value[i][column_name]]
                           ELSE <<>>,
                           results.attempts, results.opened, results.closed,
                           <<table_name, column_name>>)

\* DatabaseService.get_column_stats: the first row of the statistics, {} when
\* the query fails.
get_column_stats(engine, cls, catalogue, table_name, column_name, connectOutcome, cursorRaises) ==
    IF engine = "None"
    THEN Call("get_column_stats", "RuntimeError", <<>>, 0, 0, 0, <<table_name, column_name>>)
    ELSE LET query == stats_query(engine_name(cls), table_name, column_name)
             cursor ==
                 query_cursor(catalogue, query, cursorRaises, <<"count", "unique_count">>,
                     IF has_column(catalogue, table_name, column_name)
                     THEN <<<<PyInt(Len(catalogue[table_name].rows)),
                              PyInt(Cardinality(distinct_values(catalogue, table_name,
                                                                column_name)))>>>>
                     ELSE <<>>)
             results == execute_query(engine, connectOutcome, cursor)
         IN  Call("get_column_stats", "none",
                  IF results.raised = "none" /\ results.value # <<>>
                  THEN results.value[1] ELSE <<>>,
                  results.attempts, results.opened, results.closed,
                  <<table_name, column_name>>)

\* The columns of a table, as <<table, column>> pairs.
ColumnsOf(catalogue) ==
    {<<t, catalogue[t].columns[i].name>> :
        <<t, i>> \in UNION {{t} \X (1..Len(catalogue[t].columns)) : t \in DOMAIN catalogue}}

\* What the backend does with the sampling queries of one inspection: for
\* each column the connection, the cursor's error and the rows picked.
SamplingEnv(connect, raises, pick) ==
    [connect |-> connect, raises |-> raises, pick |-> pick]

\* A plausible slip: the samples are recorded whenever the call returned
\* (is not None), an empty list included.
col_info_AlwaysSamples(col_data, unique_vals) ==
    [type |-> col_data.type, nullable |-> col_data.nullable,
     default |-> col_data.default, comment |-> col_data.comment]
        @@ ("sample_values" :> unique_vals)

\* The entry of one column in the schema tree: the column's attributes, and
\* the sampled values when there are any.
col_info(col_data, unique_vals) ==
    LET base == [type |-> col_data.type, nullable |-> col_data.nullable,
                 default |-> col_data.default, comment |-> col_data.comment]
    IN  IF unique_vals # <<>>
        THEN base @@ ("sample_values" :> unique_vals)
        ELSE base

\* DatabaseService.get_detailed_schema_representation on one state of the
\* catalogue. failAt is the catalogue read that fails: "tables" (the list of
\* tables), a table (its keys, indexes or columns), or "none".
get_detailed_schema_representation(engine, cls, catalogue, failAt, sampling) ==
    IF engine = "None"
    THEN Call("get_detailed_schema_representation", "RuntimeError", <<>>, 0, 0, 0, <<>>)
    ELSE
    LET tables == get_tables(engine, catalogue,
                             IF failAt = <<"tables">> THEN "SQLAlchemyError" ELSE "none")
    IN  IF tables.raised # "none"
        THEN Call("get_detailed_schema_representation", tables.raised, <<>>,
                  tables.attempts, tables.opened, tables.closed, <<>>)
        ELSE
        LET raisesFor(t) == IF failAt = <<"table", t>> THEN "SQLAlchemyError" ELSE "none"
            failed == \E i \in 1..Len(tables.value) :
                         \/ get_primary_keys(engine, catalogue, tables.value[i],
                                             raisesFor(tables.value[i])).raised # "none"
                         \/ get_columns(engine, catalogue, tables.value[i],
                                        raisesFor(tables.value[i])).raised # "none"
            unique(t, c) == get_unique_values(engine, cls, catalogue, t, c,
                                sampling[<<t, c>>].connect, sampling[<<t, c>>].raises,
                                sampling[<<t, c>>].pick)
            table_details(t) ==
                LET columns_data == get_columns(engine, catalogue, t, "none").value
                IN  [columns |->
                        [c \in {columns_data[i].name : i \in 1..Len(columns_data)} |->
                            col_info(columns_data[CHOOSE i \in 1..Len(columns_data) :
                                                     columns_data[i].name = c],
                                     unique(t, c).value)],
                     primary_keys |-> get_primary_keys(engine, catalogue, t, "none").value,
                     foreign_keys |-> get_foreign_keys(engine, catalogue, t, "none").value,
                     indexes |-> get_indexes(engine, catalogue, t, "none").value]
            used == {p \in ColumnsOf(catalogue) : unique(p[1], p[2]).opened = 1}
            unreturned == {p \in ColumnsOf(catalogue) :
                              unique(p[1], p[2]).opened # unique(p[1], p[2]).closed}
        IN  IF failed
            THEN Call("get_detailed_schema_representation", "SQLAlchemyError", <<>>,
                      1, 1, 1, <<>>)
            ELSE Call("get_detailed_schema_representation", "none",
                      [t \in DOMAIN catalogue |-> table_details(t)],
                      1 + Cardinality(ColumnsOf(catalogue)),
                      1 + Cardinality(used),
                      1 + Cardinality(used) - Cardinality(unreturned), <<>>)

\* yaml.dump of the simplified schema: the text stands for the mapping it dumps.
yaml_dump(mapping) == [yaml |-> mapping]

\* The simplified schema of a schema tree, dumped; the inspection's error
\* when it raised.
summary_of(d) ==
    LET table_summary(t) ==
            IF d.value[t].primary_keys # <<>>
            THEN [columns |-> [c \in DOMAIN d.value[t].columns |->
                                  d.value[t].columns[c].type],
                  primary_keys |-> d.value[t].primary_keys]
            ELSE [columns |-> [c \in DOMAIN d.value[t].columns |->
                                  d.value[t].columns[c].type]]
    IN  IF d.raised # "none"
        THEN Call("get_schema_summary_for_llm", d.raised, <<>>,
                  d.attempts, d.opened, d.closed, <<>>)
        ELSE Call("get_schema_summary_for_llm", "none",
                  yaml_dump([t \in DOMAIN d.value |-> table_summary(t)]),
                  d.attempts, d.opened, d.closed, <<>>)

\* DatabaseService.get_schema_summary_for_llm: the column types and, when
\* there are any, the primary keys of every table of a fresh inspection.
get_schema_summary_for_llm(engine, cls, catalogue, failAt, sampling) ==
    IF engine = "None"
    THEN Call("get_schema_summary_for_llm", "RuntimeError", <<>>, 0, 0, 0, <<>>)
    ELSE summary_of(get_detailed_schema_representation(engine, cls, catalogue,
                                                       failAt, sampling))

\* ------------------------------------------------------- lifecycle
NoConfig == [db_type |-> "none"]

\* The plugin configuration: the dialect, whether each connection parameter is
\* given, the database name ("" or a name), the schema switches and the CSV
\* inputs. An override is "None", "" or "text".
Config(db_type, db_host, db_port, db_user, db_password, db_name, auto_detect_schema, database_schema_override, schema_summary_override, csv_files, csv_directories) ==
    [db_type |-> db_type, db_host |-> db_host, db_port |-> db_port,
     db_user |-> db_user, db_password |-> db_password, db_name |-> db_name,
     auto_detect_schema |-> auto_detect_schema,
     database_schema_override |-> database_schema_override,
     schema_summary_override |-> schema_summary_override,
     csv_files |-> csv_files, csv_directories |-> csv_directories]

\* SqlAgentInitConfigModel._validate_dependencies.
validate_dependencies(c) ==
    IF /\ c.db_type \in {"mysql", "postgresql"}
       /\ \/ ~c.db_host
          \/ ~c.db_port
          \/ ~c.db_user
          \/ ~c.db_password
    THEN "ValueError"
    ELSE IF /\ ~c.auto_detect_schema
            /\ \/ c.database_schema_override = "None"
               \/ c.schema_summary_override = "None"
    THEN "ValueError"
    ELSE "ok"

\* initialize_sql_agent's choice of the service class and its parameters.
service_for(c, createOutcome) ==
    IF c.db_type \in {"postgresql", "mysql", "sqlserver", "sqlite"}
    THEN DatabaseService(c.db_type, c.db_name, createOutcome)
    ELSE NoService

\* cleanup_sql_agent_resources: close() on the stored db_handler, its
\* exception logged; a log line when none is stored.
cleanup_sql_agent_resources(state, service, disposeOutcome) ==
    IF state.db_handler
    THEN LET c == close(service.engine, disposeOutcome)
         IN  [raised |-> "none", dispose_calls |-> c.dispose_calls,
              disposed |-> c.disposed, closed_service |-> TRUE]
    ELSE [raised |-> "none", dispose_calls |-> 0, disposed |-> 0,
          closed_service |-> FALSE]

NoState == [db_handler |-> FALSE, db_schema_summary_for_prompt |-> <<>>,
            db_detailed_schema_yaml |-> <<>>, system_instruction |-> FALSE]
NoLocals == [schema_summary_for_llm |-> <<>>, detailed_schema_yaml |-> <<>>]

\* --------------------------------------------------- the model's inputs
\* The file the service-level behaviours import: d/B.csv, a header "a" and
\* one row.
DemoPath == Path("d", <<"B">>, ".csv")
MissingPath == Path("e", <<"7">>, ".csv")
DemoFs == DemoPath :> << <<<<"a">>>>, <<"x">> >>

\* What d/B.csv may hold: a header and a row; an "id" header, a row and a
\* malformed row; two headers of one name; nothing.
CsvContents ==
    {<< <<<<"a">>>>, <<"x">> >>,
     << <<id_>>, <<"x">>, <<"x", "y">> >>,
     << <<<<"a">>, <<"a">>>>, <<"x", "y">> >>,
     <<>>}

\* The file systems a service built by a caller may find: d/B.csv with each
\* of these contents.
FileSystems == {DemoPath :> content : content \in CsvContents}

\* The headers of the files imported on their own: "id", "a", and "B" and "b",
\* which sanitize to one name.
HeaderNames == {id_, <<"a">>, <<"B">>, <<"b">>}
HeaderLists == UNION {[1..k -> HeaderNames] : k \in 0..MaxHeaders}

\* A data row of n fields: "x" and "y" in turn, from v on.
FileRow(n, v) ==
    [j \in 1..n |-> IF j % 2 = 1 THEN v ELSE IF v = "x" THEN "y" ELSE "x"]

\* The data rows of a file: rows with fewer fields than any header row, with
\* as many, and with more.
FileRows == {FileRow(n, v) : n \in 0..(MaxHeaders + 1), v \in {"x", "y"}}
FileRowLists == UNION {[1..k -> FileRows] : k \in 0..MaxFileRows}

\* What csv.reader yields for such a file: nothing at all, or a header row
\* and the data rows.
WideContents ==
    {<<>>} \cup {<<h>> \o rows : <<h, rows>> \in HeaderLists \X FileRowLists}

\* A table and a column that are not in the catalogue.
NoSuchName == <<"z">>

TableArgs == DOMAIN db \cup {NoSuchName}
ColumnArgs(t) ==
    (IF t \in DOMAIN db
     THEN {db[t].columns[i].name : i \in 1..Len(db[t].columns)} ELSE {})
        \cup {NoSuchName}

InspectOutcomes == {"none", "SQLAlchemyError"}
CursorErrors == {"none", "SQLAlchemyError", "Exception"}
DisposeOutcomes == {"none", "Exception"}
CreateOutcomes == {"ok", "Exception"}

\* The ways one sampling query fails.
SamplingFailures ==
    {[connect |-> "SQLAlchemyError", raises |-> "none"],
     [connect |-> "ok", raises |-> "SQLAlchemyError"],
     [connect |-> "ok", raises |-> "Exception"]}

\* The backend's behaviour over the sampling queries of one inspection: every
\* column's rows picked among its samples, and at most one query failing.
SamplingEnvs(catalogue) ==
    LET cols == ColumnsOf(catalogue)
        picks == {f \in [cols -> UNION {Samples(catalogue, p[1], p[2], SampleLimit) : p \in cols}] :
                     \A p \in cols : f[p] \in Samples(catalogue, p[1], p[2], SampleLimit)}
        ok(f) == [p \in cols |-> SamplingEnv("ok", "none", f[p])]
    IN  {ok(f) : f \in picks}
            \cup {[ok(f) EXCEPT ![p] = SamplingEnv(x.connect, x.raises, f[p])] :
                    <<f, p, x>> \in picks \X cols \X SamplingFailures}

\* The catalogue reads of one inspection that may fail.
FailPoints(catalogue) ==
    {<<"none">>, <<"tables">>} \cup {<<"table", t>> : t \in DOMAIN catalogue}

\* The listings os.listdir may give for the directories of the file system.
Listings(files) ==
    LET dirs == {f.dir : f \in DOMAIN files}
        all == UNION {Orderings(csv_files_in(files, d)) : d \in dirs}
    IN  {l \in [dirs -> all] : \A d \in dirs : l[d] \in Orderings(csv_files_in(files, d))}

\* ------------------------------------------------------------ actions
SanIdle ==
    /\ identifier = <<>>
    /\ sanitized = <<>>
    /\ resanitized = <<>>
    /\ sanPc = "idle"

\* A finished call: it is recorded, and the connections it did not give back
\* stay checked out.
Finish(call) ==
    /\ lastCall' = call
    /\ checkedOut' = checkedOut + call.opened - call.closed

\* A caller builds a service of one of the four classes itself.
Construct ==
    /\ pc = "new"
    /\ \E cls \in Dialects, database \in {"", "name"}, createOutcome \in CreateOutcomes :
          svc' = DatabaseService(cls, database, createOutcome)
    /\ pc' = "direct"
    /\ UNCHANGED <<config, db, fs, attempted, agentState, locals, checkedOut,
                   disposals, closeCalls, lastCall>>
    /\ UNCHANGED <<sanVars, importers>>

\* with service.get_connection() as conn: a body of the caller's own.
UseConnection ==
    /\ pc = "direct"
    /\ \E connectOutcome \in ConnectOutcomes, bodyRaises \in CursorErrors :
          LET scope == get_connection(svc.engine, connectOutcome, bodyRaises)
          IN  Finish(Call("get_connection", scope.raised, <<>>, scope.attempts,
                          scope.opened, scope.closed, bodyRaises))
    /\ UNCHANGED <<config, svc, db, fs, attempted, agentState, locals,
                   disposals, closeCalls>>
    /\ pc' = "returned"
    /\ UNCHANGED <<sanVars, importers>>

ExecuteQuery ==
    /\ pc = "direct"
    /\ \E connectOutcome \in ConnectOutcomes, cursor \in Cursors :
          \* the statement is not run without a connection
          /\ connectOutcome = "ok" \/ cursor = Cursor("none", FALSE, <<>>, <<>>, Count(0))
          /\ Finish(execute_query(svc.engine, connectOutcome, cursor))
    /\ UNCHANGED <<config, svc, db, fs, attempted, agentState, locals,
                   disposals, closeCalls>>
    /\ pc' = "returned"
    /\ UNCHANGED <<sanVars, importers>>

GetTables ==
    /\ pc = "direct"
    /\ \E r \in InspectOutcomes : Finish(get_tables(svc.engine, db, r))
    /\ UNCHANGED <<config, svc, db, fs, attempted, agentState, locals,
                   disposals, closeCalls>>
    /\ pc' = "returned"
    /\ UNCHANGED <<sanVars, importers>>

GetColumns ==
    /\ pc = "direct"
    /\ \E t \in TableArgs, r \in InspectOutcomes : Finish(get_columns(svc.engine, db, t, r))
    /\ UNCHANGED <<config, svc, db, fs, attempted, agentState, locals,
                   disposals, closeCalls>>
    /\ pc' = "returned"
    /\ UNCHANGED <<sanVars, importers>>

GetPrimaryKeys ==
    /\ pc = "direct"
    /\ \E t \in TableArgs, r \in InspectOutcomes :
          Finish(get_primary_keys(svc.engine, db, t, r))
    /\ UNCHANGED <<config, svc, db, fs, attempted, agentState, locals,
                   disposals, closeCalls>>
    /\ pc' = "returned"
    /\ UNCHANGED <<sanVars, importers>>

GetForeignKeys ==
    /\ pc = "direct"
    /\ \E t \in TableArgs, r \in InspectOutcomes :
          Finish(get_foreign_keys(svc.engine, db, t, r))
    /\ UNCHANGED <<config, svc, db, fs, attempted, agentState, locals,
                   disposals, closeCalls>>
    /\ pc' = "returned"
    /\ UNCHANGED <<sanVars, importers>>

GetIndexes ==
    /\ pc = "direct"
    /\ \E t \in TableArgs, r \in InspectOutcomes : Finish(get_indexes(svc.engine, db, t, r))
    /\ UNCHANGED <<config, svc, db, fs, attempted, agentState, locals,
                   disposals, closeCalls>>
    /\ pc' = "returned"
    /\ UNCHANGED <<sanVars, importers>>

GetUniqueValues ==
    /\ pc = "direct"
    /\ \E t \in TableArgs :
          \E c \in ColumnArgs(t), connectOutcome \in ConnectOutcomes,
             cursorRaises \in CursorErrors :
             \E pick \in Samples(db, t, c, SampleLimit) :
                /\ connectOutcome = "ok" \/ cursorRaises = "none"
                /\ Finish([get_unique_values(svc.engine, svc.cls, db, t, c,
                                          connectOutcome, cursorRaises, pick)
                             EXCEPT !.arg =
                                [table |-> t, column |-> c,
                                 connect |-> connectOutcome, raises |-> cursorRaises,
                                 query |-> sample_query(engine_name(svc.cls), t, c,
                                                        SampleLimit)]])
    /\ UNCHANGED <<config, svc, db, fs, attempted, agentState, locals,
                   disposals, closeCalls>>
    /\ pc' = "returned"
    /\ UNCHANGED <<sanVars, importers>>

GetColumnStats ==
    /\ pc = "direct"
    /\ \E t \in TableArgs :
          \E c \in ColumnArgs(t), connectOutcome \in ConnectOutcomes,
             cursorRaises \in CursorErrors :
                /\ connectOutcome = "ok" \/ cursorRaises = "none"
                /\ Finish([get_column_stats(svc.engine, svc.cls, db, t, c,
                                         connectOutcome, cursorRaises)
                             EXCEPT !.arg =
                                [table |-> t, column |-> c,
                                 connect |-> connectOutcome, raises |-> cursorRaises,
                                 query |-> stats_query(engine_name(svc.cls), t, c)]])
    /\ UNCHANGED <<config, svc, db, fs, attempted, agentState, locals,
                   disposals, closeCalls>>
    /\ pc' = "returned"
    /\ UNCHANGED <<sanVars, importers>>

GetDetailedSchema ==
    /\ pc = "direct"
    /\ \E failAt \in FailPoints(db), sampling \in SamplingEnvs(db) :
          Finish([get_detailed_schema_representation(svc.engine, svc.cls, db,
                                                     failAt, sampling)
                     EXCEPT !.arg = [failAt |-> failAt, sampling |-> sampling]])
    /\ UNCHANGED <<config, svc, db, fs, attempted, agentState, locals,
                   disposals, closeCalls>>
    /\ pc' = "returned"
    /\ UNCHANGED <<sanVars, importers>>

GetSchemaSummary ==
    /\ pc = "direct"
    /\ \E failAt \in FailPoints(db), sampling \in SamplingEnvs(db) :
          Finish(get_schema_summary_for_llm(svc.engine, svc.cls, db, failAt, sampling))
    /\ UNCHANGED <<config, svc, db, fs, attempted, agentState, locals,
                   disposals, closeCalls>>
    /\ pc' = "returned"
    /\ UNCHANGED <<sanVars, importers>>

\* The outcome of a batch: the call, the catalogue it leaves, the files it
\* tried. The call is recorded with the files it was given, the files the
\* listed directories hold, and what import_csv_files raised to it.
Imports(r, escaped, file_list, found) ==
    /\ Finish(Call("import_csv_data", r.raised,
                   [files |-> file_list, found |-> found, escaped |-> escaped],
                   r.attempts, r.opened, r.closed, r.tried))
    /\ db' = r.db
    /\ attempted' = attempted \cup Range(r.tried)

\* import_csv_data on the given files and directories.
ImportWith(file_list, directories) ==
    \E listing \in Listings(fs), scanRaises \in {"none", "OSError"} :
       \E ios \in [1..Len(files_to_process(fs, file_list, directories, listing))
                     -> ImportIOs] :
          Imports(import_csv_data(svc, db, fs, file_list, directories, listing,
                                  scanRaises, ios),
                  import_csv_files(svc.engine, db, fs, file_list, directories,
                                   listing, scanRaises, ios).raised,
                  file_list, scan(fs, directories, listing, 1))

ImportCsvData ==
    /\ pc = "direct"
    /\ \E file_list \in {<<>>, <<DemoPath>>, <<MissingPath>>},
          directories \in {<<>>, <<"d">>} :
          ImportWith(file_list, directories)
    /\ UNCHANGED <<config, svc, fs, agentState, locals, disposals, closeCalls>>
    /\ pc' = "returned"
    /\ UNCHANGED <<sanVars, importers>>

Close ==
    /\ pc \in {"direct", "ready"}
    /\ closeCalls < MaxCloseCalls
    /\ \E disposeOutcome \in DisposeOutcomes :
          LET c == close(svc.engine, disposeOutcome)
          IN  /\ Finish(Call("close", c.raised, <<>>, 0, 0, 0, disposeOutcome))
              /\ disposals' = disposals \o [i \in 1..c.dispose_calls |-> disposeOutcome]
    /\ closeCalls' = closeCalls + 1
    /\ pc' = IF pc = "direct" THEN "returned" ELSE pc
    /\ UNCHANGED <<config, svc, db, fs, attempted, agentState, locals>>
    /\ UNCHANGED <<sanVars, importers>>

\* The caller takes the outcome of its call and goes on.
Return ==
    /\ pc = "returned"
    /\ pc' = "direct"
    /\ lastCall' = NoCall
    /\ UNCHANGED <<config, svc, db, fs, attempted, agentState, locals, checkedOut,
                   disposals, closeCalls>>
    /\ UNCHANGED <<sanVars, importers>>

\* ----------------------------------------------- the plugin's actions
OverridePairs ==
    {<<"None", "None">>, <<"text", "None">>, <<"None", "text">>, <<"", "text">>,
     <<"text", "text">>}

CsvInputs == {<< <<>>, <<>> >>, << <<DemoPath>>, <<>> >>, << <<>>, <<"d">> >>}

Configs ==
    {Config(t, h, p, u, w, n, a, o[1], o[2], i[1], i[2]) :
        t \in Dialects, h \in BOOLEAN, p \in BOOLEAN, u \in BOOLEAN, w \in BOOLEAN,
        n \in {"", "name"}, a \in BOOLEAN, o \in OverridePairs, i \in CsvInputs}

\* initialize_sql_agent raises: the service it built is referenced by nothing.
InitRaises(err) ==
    /\ pc' = "init_failed"
    /\ Finish(Call("initialize_sql_agent", err, <<>>, 0, 0, 0, <<>>))

\* The model's validation of the configuration the plugin is handed.
ModelValidate ==
    /\ pc = "start"
    /\ pc' = IF validate_dependencies(config) = "ok" THEN "validated" ELSE "rejected"
    /\ Finish(Call("model_validate",
                   IF validate_dependencies(config) = "ok" THEN "none" ELSE "ValueError",
                   <<>>, 0, 0, 0, <<>>))
    /\ UNCHANGED <<config, svc, db, fs, attempted, agentState, locals,
                   disposals, closeCalls>>
    /\ UNCHANGED <<sanVars, importers>>

\* A plausible slip: the engine check is left out.
InitService_NoEngineCheck ==
    /\ pc = "validated"
    /\ \E createOutcome \in CreateOutcomes :
          svc' = service_for(config, createOutcome)
    /\ pc' = "init_csv"
    /\ UNCHANGED <<lastCall, checkedOut>>
    /\ UNCHANGED <<config, db, fs, attempted, agentState, locals,
                   disposals, closeCalls>>
    /\ UNCHANGED <<sanVars, importers>>

\* initialize_sql_agent, to the engine check.
InitService ==
    /\ pc = "validated"
    /\ \E createOutcome \in CreateOutcomes :
          /\ svc' = service_for(config, createOutcome)
          /\ IF svc'.engine = "None"
             THEN InitRaises("RuntimeError")
             ELSE /\ pc' = "init_csv"
                  /\ UNCHANGED <<lastCall, checkedOut>>
    /\ UNCHANGED <<config, db, fs, attempted, agentState, locals,
                   disposals, closeCalls>>
    /\ UNCHANGED <<sanVars, importers>>

\* initialize_sql_agent, the CSV import: its errors never end the initialization.
InitCsv ==
    /\ pc = "init_csv"
    /\ IF config.csv_files # <<>> \/ config.csv_directories # <<>>
       THEN ImportWith(config.csv_files, config.csv_directories)
       ELSE UNCHANGED <<db, attempted, lastCall, checkedOut>>
    /\ pc' = "init_schema"
    /\ UNCHANGED <<config, svc, fs, agentState, locals, disposals, closeCalls>>
    /\ UNCHANGED <<sanVars, importers>>

\* Schema handling goes on with the summary, or fails with its error wrapped.
Summarized(r) ==
    IF r.raised # "none"
    THEN /\ InitRaises("RuntimeError")
         /\ UNCHANGED locals
    ELSE /\ pc' = "init_detailed"
         /\ Finish(r)
         /\ locals' = [locals EXCEPT !.schema_summary_for_llm = r.value]

Detailed(r) ==
    IF r.raised # "none"
    THEN /\ InitRaises("RuntimeError")
         /\ UNCHANGED locals
    ELSE /\ pc' = "init_store"
         /\ Finish(r)
         /\ locals' = [locals EXCEPT !.detailed_schema_yaml = yaml_dump(r.value)]

\* initialize_sql_agent, the schema summary or the overrides.
InitSummary ==
    /\ pc = "init_schema"
    /\ IF config.auto_detect_schema
       THEN \E failAt \in FailPoints(db), sampling \in SamplingEnvs(db) :
               Summarized(get_schema_summary_for_llm(svc.engine, svc.cls, db,
                                                     failAt, sampling))
       ELSE IF \/ config.schema_summary_override \in {"None", ""}
               \/ config.database_schema_override \in {"None", ""}
            THEN /\ InitRaises("RuntimeError")
                 /\ UNCHANGED locals
            ELSE /\ pc' = "init_store"
                 /\ locals' = [schema_summary_for_llm |-> config.schema_summary_override,
                               detailed_schema_yaml |-> config.database_schema_override]
                 /\ UNCHANGED <<lastCall, checkedOut>>
    /\ UNCHANGED <<config, svc, db, fs, attempted, agentState, disposals, closeCalls>>
    /\ UNCHANGED <<sanVars, importers>>

\* initialize_sql_agent, the detailed schema.
InitDetailed ==
    /\ pc = "init_detailed"
    /\ \E failAt \in FailPoints(db), sampling \in SamplingEnvs(db) :
          Detailed(get_detailed_schema_representation(svc.engine, svc.cls, db,
                                                      failAt, sampling))
    /\ UNCHANGED <<config, svc, db, fs, attempted, agentState, disposals, closeCalls>>
    /\ UNCHANGED <<sanVars, importers>>

\* initialize_sql_agent, the agent state and the system instruction.
InitStore ==
    /\ pc = "init_store"
    /\ agentState' = [db_handler |-> TRUE,
                      db_schema_summary_for_prompt |-> locals.schema_summary_for_llm,
                      db_detailed_schema_yaml |-> locals.detailed_schema_yaml,
                      system_instruction |-> TRUE]
    /\ pc' = "ready"
    /\ Finish(Call("initialize_sql_agent", "none", <<>>, 0, 0, 0, <<>>))
    /\ UNCHANGED <<config, svc, db, fs, attempted, locals, disposals, closeCalls>>
    /\ UNCHANGED <<sanVars, importers>>

\* cleanup_sql_agent_resources, whenever the host is not initializing.
Cleanup ==
    /\ pc \in {"start", "rejected", "init_failed", "ready"}
    /\ closeCalls < MaxCloseCalls
    /\ \E disposeOutcome \in DisposeOutcomes :
          LET c == cleanup_sql_agent_resources(agentState, svc, disposeOutcome)
          IN  /\ Finish(Call("cleanup_sql_agent_resources", c.raised, <<>>,
                             0, 0, 0, disposeOutcome))
              /\ disposals' = disposals \o [i \in 1..c.dispose_calls |-> disposeOutcome]
    /\ closeCalls' = closeCalls + 1
    /\ UNCHANGED <<pc, config, svc, db, fs, attempted, agentState, locals>>
    /\ UNCHANGED <<sanVars, importers>>

\* ------------------------------------------------------ specifications
Init ==
    /\ SanIdle
    /\ \/ pc = "new" /\ config = NoConfig /\ fs \in FileSystems
       \/ pc = "start" /\ config \in Configs /\ fs = DemoFs
    /\ svc = NoService
    /\ db = NoTables
    /\ attempted = {}
    /\ agentState = NoState
    /\ locals = NoLocals
    /\ checkedOut = 0
    /\ disposals = <<>>
    /\ closeCalls = 0
    /\ lastCall = NoCall
    /\ importers = NoImporters

Next ==
    \/ Construct
    \/ UseConnection
    \/ ExecuteQuery
    \/ GetTables
    \/ GetColumns
    \/ GetPrimaryKeys
    \/ GetForeignKeys
    \/ GetIndexes
    \/ GetUniqueValues
    \/ GetColumnStats
    \/ GetDetailedSchema
    \/ GetSchemaSummary
    \/ ImportCsvData
    \/ Close
    \/ Return
    \/ ModelValidate
    \/ InitService
    \/ InitCsv
    \/ InitSummary
    \/ InitDetailed
    \/ InitStore
    \/ Cleanup

Spec == Init /\ [][Next]_vars

\* The sanitizer on its own: every identifier of the bound, sanitized twice.
SanInit ==
    /\ identifier \in StringsUpTo(MaxIdLen)
    /\ sanitized = <<>>
    /\ resanitized = <<>>
    /\ sanPc = "input"
    /\ pc = "none"
    /\ config = NoConfig
    /\ svc = NoService
    /\ db = NoTables
    /\ fs = DemoFs
    /\ attempted = {}
    /\ agentState = NoState
    /\ locals = NoLocals
    /\ checkedOut = 0
    /\ disposals = <<>>
    /\ closeCalls = 0
    /\ lastCall = NoCall
    /\ importers = NoImporters

Sanitize ==
    /\ sanPc = "input"
    /\ sanitized' = sanitize_identifier(identifier)
    /\ sanPc' = "once"
    /\ UNCHANGED <<identifier, resanitized>>
    /\ UNCHANGED <<svcVars, importers>>

SanitizeAgain ==
    /\ sanPc = "once"
    /\ resanitized' = sanitize_identifier(sanitized)
    /\ sanPc' = "twice"
    /\ UNCHANGED <<identifier, sanitized>>
    /\ UNCHANGED <<svcVars, importers>>

SanNext == Sanitize \/ SanitizeAgain

SpecSanitize == SanInit /\ [][SanNext]_vars

\* One file's import on its own: d/B.csv with every content of the bound, into
\* an empty database, with every behaviour of the backend.
ImportInit ==
    /\ SanIdle
    /\ pc = "file"
    /\ config = NoConfig
    /\ svc = DatabaseService("sqlite", "name", "ok")
    /\ db = NoTables
    /\ fs \in {DemoPath :> content : content \in WideContents}
    /\ attempted = {}
    /\ agentState = NoState
    /\ locals = NoLocals
    /\ checkedOut = 0
    /\ disposals = <<>>
    /\ closeCalls = 0
    /\ lastCall = NoCall
    /\ importers = NoImporters

\* What _import_single_csv_file leaves, with the backend's behaviour it met.
ImportedFile(r, io) ==
    /\ Finish(Call("_import_single_csv_file", r.raised, <<>>, r.attempts,
                   r.opened, r.closed, io))
    /\ db' = r.db

ImportFile ==
    /\ pc = "file"
    /\ \E io \in ImportIOs :
          ImportedFile(import_single_csv_file(svc.engine, db, fs, DemoPath, io), io)
    /\ attempted' = attempted \cup {DemoPath}
    /\ pc' = "imported"
    /\ UNCHANGED <<config, svc, fs, agentState, locals, disposals, closeCalls>>
    /\ UNCHANGED <<sanVars, importers>>

SpecImport == ImportInit /\ [][ImportFile]_vars

\* ------------------------------------------ imports running at the same time
\* Two threads of the host process run _import_single_csv_file against one
\* database, on d/B.csv or on d/b.csv, whose base names sanitize to one table
\* name. A thread's steps are the statements the database sees, each with the
\* commit that follows it.
TwinPath == Path("d", <<"b">>, ".csv")
Threads == {1, 2}

\* A thread inside _import_single_csv_file: its file, where it stands, what
\* it raised, whether it created the table, whether it inserted rows.
Importer(file_path, at, raised, created, inserted) ==
    [file_path |-> file_path, at |-> at, raised |-> raised,
     created |-> created, inserted |-> inserted]

table_name_of(file_path) == sanitize_identifier(base_filename(file_path))

\* The columns a thread declares for its file.
declared_columns(files, file_path) ==
    columns_for(sanitized_headers_of(files[file_path][1]))

\* The backend refuses an insert that repeats a value of a primary key the
\* file supplies, in the table or within the rows inserted.
violates_primary_key(table, data_to_insert) ==
    \E j \in 1..Len(table.columns) :
        /\ table.columns[j].primary_key
        /\ ~table.columns[j].autoincrement
        /\ \E i \in 1..Len(data_to_insert) :
              \/ \E k \in 1..Len(table.rows) :
                    table.rows[k][table.columns[j].name]
                        = data_to_insert[i][table.columns[j].name]
              \/ \E k \in 1..Len(data_to_insert) :
                    /\ k # i
                    /\ data_to_insert[k][table.columns[j].name]
                           = data_to_insert[i][table.columns[j].name]

\* The thread moves on, and the connections it holds change by held.
Step(t, at, raised, created, inserted, held) ==
    /\ importers' = [importers EXCEPT ![t] =
                        Importer(importers[t].file_path, at, raised, created, inserted)]
    /\ checkedOut' = checkedOut + held
    /\ UNCHANGED <<pc, config, svc, fs, agentState, locals, disposals,
                   closeCalls, lastCall>>
    /\ UNCHANGED sanVars

ConcurrentInit ==
    /\ SanIdle
    /\ pc = "threads"
    /\ config = NoConfig
    /\ svc = DatabaseService("sqlite", "name", "ok")
    /\ db = NoTables
    /\ fs \in {[p \in {DemoPath, TwinPath} |-> content] : content \in CsvContents}
    /\ attempted = {}
    /\ agentState = NoState
    /\ locals = NoLocals
    /\ checkedOut = 0
    /\ disposals = <<>>
    /\ closeCalls = 0
    /\ lastCall = NoCall
    /\ importers \in [Threads -> {Importer(p, "start", "none", FALSE, FALSE) :
                                     p \in {DemoPath, TwinPath}}]

\* Inspector.has_table, and, the table not being there, the file's header row
\* and the table's declaration.
CheckTable ==
    \E t \in Threads :
        LET file_path == importers[t].file_path
        IN  /\ importers[t].at = "start"
            /\ attempted' = attempted \cup {file_path}
            /\ UNCHANGED db
            /\ IF has_table(db, table_name_of(file_path))
               THEN Step(t, "returned", "none", FALSE, FALSE, 0)
               ELSE IF fs[file_path] = <<>> \/ fs[file_path][1] = <<>>
               THEN Step(t, "returned", "none", FALSE, FALSE, 0)
               ELSE IF Cardinality({declared_columns(fs, file_path)[j].name :
                                       j \in 1..Len(declared_columns(fs, file_path))})
                          # Len(declared_columns(fs, file_path))
               THEN Step(t, "raised", "ArgumentError", FALSE, FALSE, 0)
               ELSE Step(t, "declared", "none", FALSE, FALSE, 0)

\* get_connection, and create_all asking whether the table is there.
CreateAllCheck ==
    \E t \in Threads :
        /\ importers[t].at = "declared"
        /\ UNCHANGED <<db, attempted>>
        /\ IF has_table(db, table_name_of(importers[t].file_path))
           THEN Step(t, "insert", "none", FALSE, FALSE, 1)
           ELSE Step(t, "create", "none", FALSE, FALSE, 1)

\* create_all's CREATE TABLE and the commit: the backend refuses to create a
\* table that was created since create_all asked.
CreateTable ==
    \E t \in Threads :
        LET file_path == importers[t].file_path
        IN  /\ importers[t].at = "create"
            /\ UNCHANGED attempted
            /\ IF has_table(db, table_name_of(file_path))
               THEN /\ UNCHANGED db
                    /\ Step(t, "raised", "SQLAlchemyError", FALSE, FALSE, -1)
               ELSE /\ db' = with_table(db, table_name_of(file_path),
                                 Table(declared_columns(fs, file_path), <<>>))
                    /\ Step(t, "insert", "none", TRUE, FALSE, 0)

\* The well-formed rows of the file, inserted and committed when there are
\* any; the connection is returned.
InsertRows ==
    \E t \in Threads :
        LET file_path == importers[t].file_path
            table_name == table_name_of(file_path)
            data_to_insert ==
                data_to_insert_of(fs[file_path], sanitized_headers_of(fs[file_path][1]))
        IN  /\ importers[t].at = "insert"
            /\ UNCHANGED attempted
            /\ IF data_to_insert = <<>>
               THEN /\ UNCHANGED db
                    /\ Step(t, "returned", "none", importers[t].created, FALSE, -1)
               ELSE IF violates_primary_key(db[table_name], data_to_insert)
               THEN /\ UNCHANGED db
                    /\ Step(t, "raised", "IntegrityError", importers[t].created, FALSE, -1)
               ELSE /\ db' = with_table(db, table_name,
                                 insert_rows(db[table_name], data_to_insert))
                    /\ Step(t, "returned", "none", importers[t].created, TRUE, -1)

ConcurrentNext == CheckTable \/ CreateAllCheck \/ CreateTable \/ InsertRows

SpecConcurrent == ConcurrentInit /\ [][ConcurrentNext]_vars

\* ------------------------------------------------------------ claims
\* C1: every connection a get_connection() scope obtains is given back when
\* the scope ends, however its body ends, and after execute_query returns or
\* raises no connection of that call is still checked out.
C1_ConnectionsReturned ==
    /\ checkedOut = 0
    /\ lastCall.op \in {"get_connection", "execute_query"} =>
          lastCall.closed = lastCall.opened

\* An execute_query whose statement raised a non-SQLAlchemy exception on a
\* connection it had obtained.
C1_QueryRaisedOnConnection ==
    /\ lastCall.op = "execute_query"
    /\ lastCall.raised = "Exception"
    /\ lastCall.opened = 1

\* The data-accessing operations of DatabaseService.
DataOps ==
    {"get_connection", "execute_query", "get_tables", "get_columns",
     "get_primary_keys", "get_foreign_keys", "get_indexes", "get_unique_values",
     "get_column_stats", "get_detailed_schema_representation",
     "get_schema_summary_for_llm", "import_csv_data"}

\* C2, as stated: on a service without an engine every data-accessing
\* operation, import_csv_data included, raises RuntimeError and attempts no
\* connection.
C2_AllOpsRaiseWithoutEngine ==
    (svc.engine = "None" /\ lastCall.op \in DataOps) =>
        /\ lastCall.raised = "RuntimeError"
        /\ lastCall.attempts = 0

\* C2, amended: on a service without an engine every data-accessing operation
\* attempts no connection; all of them raise RuntimeError except
\* import_csv_data, which logs, returns and imports nothing.
C2_NoEngineNoConnection ==
    (svc.engine = "None" /\ lastCall.op \in DataOps) =>
        /\ lastCall.attempts = 0
        /\ lastCall.opened = 0
        /\ db = NoTables
        /\ lastCall.raised =
              IF lastCall.op = "import_csv_data" THEN "none" ELSE "RuntimeError"

\* A scoped connection asked of a service whose engine failed to construct.
C2_ScopeWithoutEngine ==
    /\ svc.engine = "None"
    /\ lastCall.op = "get_connection"
    /\ lastCall.raised = "RuntimeError"

\* C3: execute_query returns every row of a row-returning statement as a
\* mapping over the statement's output column names, and exactly one status
\* record with a non-negative affected-row count for a statement without rows,
\* whatever row count the backend reports.
C3_ResultShape ==
    (lastCall.op = "execute_query" /\ lastCall.raised = "none") =>
        IF lastCall.arg.returns_rows
        THEN /\ Len(lastCall.value) = Len(lastCall.arg.rows)
             /\ \A i \in 1..Len(lastCall.value) :
                   /\ DOMAIN lastCall.value[i] = Range(lastCall.arg.keys)
                   /\ \A j \in 1..Len(lastCall.arg.keys) :
                         lastCall.value[i][lastCall.arg.keys[j]] = lastCall.arg.rows[i][j]
        ELSE /\ Len(lastCall.value) = 1
             /\ lastCall.value[1].status = PyStr("success")
             /\ lastCall.value[1].affected_rows.kind = "int"
             /\ lastCall.value[1].affected_rows.n >= 0

\* C4: the result of a row-returning statement never equals the status record
\* execute_query returns for a statement without rows.
C4_ShapesDistinguishable ==
    (lastCall.op = "execute_query" /\ lastCall.raised = "none"
        /\ lastCall.arg.returns_rows) =>
        \A rowcount \in RowCounts : lastCall.value # <<status_record(rowcount)>>

\* C5: close() never raises, with or without an engine, after an earlier
\* close() and when engine.dispose() fails; cleanup_sql_agent_resources never
\* raises, with or without a stored db_handler.
C5_TeardownNeverRaises ==
    lastCall.op \in {"close", "cleanup_sql_agent_resources"} =>
        lastCall.raised = "none"

\* A second close() of a service with an engine, whose dispose fails.
C5_SecondCloseDisposeFails ==
    /\ lastCall.op = "close"
    /\ lastCall.arg = "Exception"
    /\ svc.engine = "Engine"
    /\ closeCalls = 2

\* C6: an engine that was created is disposed exactly once, however many
\* close() and cleanup_sql_agent_resources calls follow an initialization that
\* succeeded or failed; a close() of a closed service disposes nothing.
C6_DisposedExactlyOnce ==
    (/\ svc.engine = "Engine"
     /\ lastCall.op \in {"close", "cleanup_sql_agent_resources"}
     /\ \A i \in 1..Len(disposals) : disposals[i] = "none") =>
        Len(disposals) = 1

\* C7: a configuration of a network dialect (postgresql, mysql, sqlserver)
\* that lacks the host, the port, the user or the password fails validation,
\* the file-based dialect needs none of them, and no engine is constructed for
\* a rejected configuration.
C7_MissingParametersRejected ==
    (config # NoConfig /\ pc # "start") =>
        /\ (/\ config.db_type \in NetworkDialects
            /\ ~(config.db_host /\ config.db_port /\ config.db_user
                    /\ config.db_password)) => pc = "rejected"
        /\ (/\ config.db_type = "sqlite"
            /\ config.auto_detect_schema) => pc # "rejected"
        /\ pc = "rejected" => svc.engine = "None"

\* C8: sanitizer idempotence: for every string x,
\* _sanitize_identifier(_sanitize_identifier(x)) = _sanitize_identifier(x).
C8_SanitizeIdempotent == sanPc = "twice" => resanitized = sanitized

\* C9: for every input the sanitizer returns a non-empty, lower-case string of
\* alphanumeric characters and underscores that starts with a letter, and the
\* result is the one the stated rule gives: replace every character that is not
\* alphanumeric with "_"; prefix tbl_ when the result is empty or starts with
\* a digit, otherwise col_ when it starts with "_"; lower-case the result.
C9_SanitizedWellFormed ==
    sanPc # "input" =>
        /\ sanitized # <<>>
        /\ \A i \in 1..Len(sanitized) :
              /\ isalnum(sanitized[i]) \/ sanitized[i] = "_"
              /\ sanitized[i] \notin UpperLetters
        /\ isalpha(sanitized[1])
        /\ sanitized =
              LET r == replaceNonAlnum(identifier)
              IN  lower(IF r = <<>> THEN tbl_
                        ELSE IF isdigit(r[1]) THEN tbl_ \o r
                        ELSE IF r[1] = "_" THEN col_ \o r
                        ELSE r)

\* C10, as stated: an import of files whose import was run before changes
\* nothing in the database, and an import of files whose tables all exist
\* changes nothing either.
C10_SecondRunChangesNothing ==
    [][lastCall'.op = "import_csv_data" =>
          /\ (lastCall'.arg # <<>> /\ Range(lastCall'.arg) \subseteq attempted) =>
                db' = db
          /\ (\A i \in 1..Len(lastCall'.arg) :
                sanitize_identifier(base_filename(lastCall'.arg[i])) \in DOMAIN db) =>
                db' = db]_vars

\* C10, amended: an import never alters or re-populates a table that exists,
\* and an import of files whose tables all exist (as they do after a run that
\* created them) changes nothing in the database, whatever the files contain.
C10_ExistingTablesUntouched ==
    [][lastCall'.op = "import_csv_data" =>
          /\ \A t \in DOMAIN db : t \in DOMAIN db' /\ db'[t] = db[t]
          /\ (\A i \in 1..Len(lastCall'.arg) :
                sanitize_identifier(base_filename(lastCall'.arg[i])) \in DOMAIN db) =>
                db' = db]_vars

\* An import of d/B.csv alone that stopped at has_table: the table b was
\* there with the rows of an earlier import, and no connection was opened.
C10_RerunFoundTable ==
    /\ lastCall.op = "import_csv_data"
    /\ lastCall.arg = <<DemoPath>>
    /\ lastCall.attempts = 1
    /\ lastCall.opened = 0
    /\ <<"b">> \in DOMAIN db
    /\ db[<<"b">>].rows # <<>>

\* C11: the rows a file's import inserts are exactly the data rows that have
\* as many fields as the header row, in file order, each field under its
\* header's column; rows of another field count are left out and do not end
\* the import.
C11_WellFormedRowsInserted ==
    (pc = "imported" /\ lastCall.raised = "none" /\ lastCall.opened = 1) =>
        LET headers == fs[DemoPath][1]
            wellFormed == SelectSeq(Tail(fs[DemoPath]),
                                    LAMBDA row : Len(row) = Len(headers))
        IN  /\ <<"b">> \in DOMAIN db
            /\ Len(db[<<"b">>].rows) = Len(wellFormed)
            /\ \A k \in 1..Len(wellFormed) :
                  \A j \in 1..Len(headers) :
                     db[<<"b">>].rows[k][sanitize_identifier(headers[j])]
                        = PyStr(wellFormed[k][j])

\* An import that went through on a file whose first data row is malformed and
\* whose second is well formed, and is in the table.
C11_MalformedThenWellFormed ==
    /\ pc = "imported"
    /\ lastCall.raised = "none"
    /\ Len(fs[DemoPath]) = 3
    /\ Len(fs[DemoPath][2]) # Len(fs[DemoPath][1])
    /\ Len(fs[DemoPath][3]) = Len(fs[DemoPath][1])
    /\ <<"b">> \in DOMAIN db
    /\ Len(db[<<"b">>].rows) = 1

\* C12: for every header list the table definition built from it has exactly
\* one column named "id", which is its only primary key: a surrogate
\* auto-incrementing integer column placed first when no header sanitizes to
\* "id", that header's text column and no surrogate otherwise; every other
\* column is text.
C12_OneIdPrimaryKey ==
    (pc = "imported" /\ fs[DemoPath] # <<>> /\ fs[DemoPath][1] # <<>>) =>
        LET names == sanitized_headers_of(fs[DemoPath][1])
            columns == columns_for(names)
            ids == {j \in 1..Len(columns) : columns[j].name = id_}
        IN  /\ Cardinality(ids) = 1
            /\ \A j \in 1..Len(columns) : columns[j].primary_key <=> j \in ids
            /\ \A j \in 1..Len(columns) : j \notin ids => columns[j].type = "TEXT"
            /\ IF id_ \in Range(names)
               THEN /\ Len(columns) = Len(names)
                    /\ \A j \in ids : columns[j].type = "TEXT"
               ELSE /\ Len(columns) = Len(names) + 1
                    /\ columns[1] = Column(id_, "INTEGER", TRUE, TRUE)

\* C13: a batch makes a full pass over its input: every listed file and every
\* ".csv" file of a listed directory is attempted, once for each time the
\* input names it, and no failure of a file's import or of the scan of an
\* input propagates out of import_csv_files.
C13_FullPass ==
    (lastCall.op = "import_csv_data" /\ svc.engine = "Engine") =>
        /\ lastCall.value.escaped = "none"
        /\ lastCall.arg = lastCall.value.files \o lastCall.value.found

\* C14: get_detailed_schema_representation is all-or-nothing for the
\* structure: when the list of tables or a table's keys, indexes or columns
\* cannot be read (the table may be gone since the list was read) the call
\* raises and returns no tree; when it returns, the tree has one entry for
\* each table.
C14_AllOrNothing ==
    (/\ lastCall.op = "get_detailed_schema_representation"
     /\ pc = "returned"
     /\ svc.engine = "Engine") =>
        IF \/ lastCall.arg.failAt = <<"tables">>
           \/ \E t \in DOMAIN db : lastCall.arg.failAt = <<"table", t>>
        THEN /\ lastCall.raised # "none"
             /\ lastCall.value = <<>>
        ELSE /\ lastCall.raised = "none"
             /\ DOMAIN lastCall.value = DOMAIN db

\* An inspection that raised because the reads of the table b failed.
C14_TableReadFailed ==
    /\ lastCall.op = "get_detailed_schema_representation"
    /\ pc = "returned"
    /\ lastCall.arg.failAt = <<"table", <<"b">>>>
    /\ lastCall.raised = "SQLAlchemyError"

\* C15: a sampling failure never aborts the inspection: the column is recorded
\* with its type, nullable, default and comment and without "sample_values";
\* the columns whose sampling query ran and returned values have them as
\* "sample_values", whatever failed elsewhere; "sample_values" is never empty.
C15_SamplingFailureNotFatal ==
    (/\ lastCall.op = "get_detailed_schema_representation"
     /\ pc = "returned"
     /\ lastCall.raised = "none") =>
        \A p \in ColumnsOf(db) :
           LET e == lastCall.arg.sampling[p]
               info == lastCall.value[p[1]].columns[p[2]]
               attributes == {"type", "nullable", "default", "comment"}
           IN  /\ attributes \subseteq DOMAIN info
               /\ DOMAIN info \subseteq attributes \cup {"sample_values"}
               /\ \E j \in 1..Len(db[p[1]].columns) :
                     /\ db[p[1]].columns[j].name = p[2]
                     /\ db[p[1]].columns[j].type = info.type
               /\ (e.connect # "ok" \/ e.raises # "none") =>
                     "sample_values" \notin DOMAIN info
               /\ "sample_values" \in DOMAIN info =>
                     /\ info.sample_values # <<>>
                     /\ info.sample_values = e.pick
               /\ (/\ e.connect = "ok"
                   /\ e.raises = "none"
                   /\ e.pick # <<>>
                   /\ svc.cls # "sqlserver") =>
                     "sample_values" \in DOMAIN info

\* An inspection of a table of two columns that returned although the
\* sampling of one column failed; the other column has its samples.
C15_OneColumnFailed ==
    /\ lastCall.op = "get_detailed_schema_representation"
    /\ pc = "returned"
    /\ lastCall.raised = "none"
    /\ \E p, q \in ColumnsOf(db) :
          /\ lastCall.arg.sampling[p].raises = "Exception"
          /\ "sample_values" \notin DOMAIN lastCall.value[p[1]].columns[p[2]]
          /\ "sample_values" \in DOMAIN lastCall.value[q[1]].columns[q[2]]

\* C16: on a service with an engine get_unique_values returns a sequence and
\* never raises, for each of the four dialects; an empty table gives the empty
\* sequence, and so does a sample query that fails.
C16_UniqueValuesNeverRaise ==
    (/\ lastCall.op = "get_unique_values"
     /\ pc = "returned"
     /\ svc.engine = "Engine") =>
        /\ lastCall.raised = "none"
        /\ DOMAIN lastCall.value = 1..Len(lastCall.value)
        /\ (/\ lastCall.arg.table \in DOMAIN db
            /\ db[lastCall.arg.table].rows = <<>>) => lastCall.value = <<>>
        /\ (\/ lastCall.arg.connect # "ok"
            \/ lastCall.arg.raises # "none"
            \/ ~has_column(db, lastCall.arg.table, lastCall.arg.column)) =>
              lastCall.value = <<>>

\* The values of a column of an empty table, asked of an SQLite service whose
\* query went through.
C16_EmptyTableSampled ==
    /\ lastCall.op = "get_unique_values"
    /\ pc = "returned"
    /\ svc.engine = "Engine"
    /\ svc.cls = "sqlite"
    /\ lastCall.arg.connect = "ok"
    /\ lastCall.arg.raises = "none"
    /\ has_column(db, lastCall.arg.table, lastCall.arg.column)
    /\ db[lastCall.arg.table].rows = <<>>
    /\ lastCall.value = <<>>

\* C17: the schema summary is a pure projection of a schema tree that is
\* already built: producing it asks for no connection and reads nothing from
\* the database.
C17_SummaryNeedsNoConnection ==
    (lastCall.op = "get_schema_summary_for_llm" /\ svc.engine = "Engine") =>
        /\ lastCall.attempts = 0
        /\ lastCall.opened = 0

\* C18: the sampling query and the statistics query quote identifiers as the
\* service's dialect asks: backticks for MySQL, double quotes for PostgreSQL
\* and SQLite, brackets for SQL Server; every dialect has a query.
C18_QuotingByDialect ==
    (/\ lastCall.op \in {"get_unique_values", "get_column_stats"}
     /\ pc = "returned"
     /\ svc.engine = "Engine") =>
        /\ lastCall.arg.query.bound
        /\ lastCall.arg.query.quote =
              CASE svc.cls = "mysql" -> "backtick"
                [] svc.cls \in {"postgresql", "sqlite"} -> "double"
                [] svc.cls = "sqlserver" -> "bracket"

\* C19: when the insert of a file's rows fails after its table was created,
\* the import raises to the batch driver, the table stays and holds no row;
\* after any import of the file the table holds all its well-formed rows or
\* none.
C19_InsertFailureLeavesEmptyTable ==
    pc = "imported" =>
        LET wellFormed ==
                IF fs[DemoPath] = <<>> THEN <<>>
                ELSE SelectSeq(Tail(fs[DemoPath]),
                               LAMBDA row : Len(row) = Len(fs[DemoPath][1]))
        IN  /\ (/\ lastCall.arg.insert # "ok"
                /\ lastCall.opened = 1
                /\ wellFormed # <<>>) =>
                  /\ lastCall.raised = lastCall.arg.insert
                  /\ <<"b">> \in DOMAIN db
                  /\ db[<<"b">>].rows = <<>>
            /\ <<"b">> \in DOMAIN db =>
                  Len(db[<<"b">>].rows) \in {0, Len(wellFormed)}

\* An import whose insert failed: it raised, and the table b is there, empty.
C19_InsertFailed ==
    /\ pc = "imported"
    /\ lastCall.arg.insert = "SQLAlchemyError"
    /\ lastCall.raised = "SQLAlchemyError"
    /\ <<"b">> \in DOMAIN db
    /\ db[<<"b">>].rows = <<>>
    /\ Len(fs[DemoPath]) = 3

\* C20: the agent state holds a db_handler and the schema strings only once
\* the engine was built and schema handling succeeded; when no engine was
\* built the initialization raises before any import or inspection and stores
\* nothing; a failure of the CSV import never ends the initialization.
C20_StoredOnlyAfterSuccess ==
    config # NoConfig =>
        /\ agentState # NoState =>
              /\ pc = "ready"
              /\ svc.engine = "Engine"
              /\ agentState.db_handler
              /\ agentState.db_schema_summary_for_prompt = locals.schema_summary_for_llm
              /\ agentState.db_detailed_schema_yaml = locals.detailed_schema_yaml
        /\ pc \in {"rejected", "init_failed"} => agentState = NoState
        /\ (svc.engine = "None" /\ pc \notin {"start", "validated", "rejected"}) =>
              /\ pc = "init_failed"
              /\ db = NoTables
              /\ attempted = {}
              /\ locals = NoLocals
        /\ lastCall.op = "import_csv_data" => pc \in {"init_schema", "init_store"}

\* An initialization for SQLite without a database path: it failed, and
\* nothing is stored.
C20_NoSqlitePath ==
    /\ config # NoConfig
    /\ config.db_type = "sqlite"
    /\ config.db_name = ""
    /\ pc = "init_failed"
    /\ lastCall.op = "initialize_sql_agent"
    /\ lastCall.raised = "RuntimeError"
    /\ agentState = NoState

\* C21: when two imports of one file, or of two files whose base names
\* sanitize to one table name, run at the same time against one database,
\* the table is created once and populated at most once: in the end it holds
\* the well-formed rows of one import, never of both.
C21_PopulatedAtMostOnce ==
    (/\ pc = "threads"
     /\ \A t \in Threads : importers[t].at \in {"returned", "raised"}) =>
        /\ Cardinality({t \in Threads : importers[t].created}) <= 1
        /\ Cardinality({t \in Threads : importers[t].inserted}) <= 1
        /\ <<"b">> \in DOMAIN db =>
              Len(db[<<"b">>].rows)
                  <= Len(data_rows(fs[DemoPath], 2, Len(fs[DemoPath][1])))
====
